---- MODULE Spec2Model ----
(***************************************************************************)
(* MqttDialerBot (src/unnamed/part_000): one React component that owns an  *)
(* MQTT client handle, a connected flag, a bounded message log and a       *)
(* phone-number extractor feeding a call trigger.                          *)
(*                                                                         *)
(* Strings are sequences of one-character strings.  The transport library  *)
(* (mqtt.js) is the environment: it decides which event a handle reports   *)
(* next; every handler is translated from the component's code.            *)
(*                                                                         *)
(* React (createRoot) renders the updates queued by a transport handler in *)
(* a later task, and those of a click or a keystroke before the event      *)
(* returns.  Until the render the page and its handlers are those of the   *)
(* last render: "rendered" holds the values that render saw.               *)
(***************************************************************************)
EXTENDS Integers, Sequences, FiniteSets, TLC

\* ---------------------------------------------------------------- bounds
MaxHandles == 2
MaxMsgs == 1
MaxLogMsgs == 52
MaxLogHandles == 1
MaxRuns == 3

\* ------------------------------------------------------ program constants
\* prev.slice(0, 49): the previous records kept by an append
KeepPrev == 49
\* the quantifier {7,15} of phoneRegex
MinRun == 7
MaxRun == 15

\* ------------------------------------------------------------ JS values
\* null and undefined are no strings: a one-element tuple holding a word
\* can never equal a sequence of one-character strings.
Null == <<"null">>
Undefined == <<"undefined">>
\* JS truthiness of a value of type string | null
Truthy(v) == v # Null /\ v # Undefined /\ v # <<>>
Min(a, b) == IF a < b THEN a ELSE b

\* ------------------------------------------------------------ extractor
\* A character is a string: itself when it is printable ASCII, its escape
\* for TAB, LF, FF and CR, and its code point ("U+00A0") otherwise.
\* \d
Digits == {"0", "1", "2", "3", "4", "5", "6", "7", "8", "9"}
\* \s of a JS regular expression: WhiteSpace and LineTerminator
Whitespace ==
    {" ", "\t", "\n", "\f", "\r", "U+000B", "U+00A0", "U+1680",
     "U+2000", "U+2001", "U+2002", "U+2003", "U+2004", "U+2005", "U+2006",
     "U+2007", "U+2008", "U+2009", "U+200A", "U+2028", "U+2029", "U+202F",
     "U+205F", "U+3000", "U+FEFF"}
\* [\s\-\(\)]
Separators == Whitespace \cup {"-", "(", ")"}
\* [\d\s\-\(\)]
IsClass(c) == c \in Digits \cup Separators

\* greedy [\d\s\-\(\)]{..,cap} at position i: how many characters it takes
RECURSIVE ClassRun(_, _, _)
ClassRun(s, i, cap) ==
    IF cap = 0 \/ i > Len(s) \/ ~IsClass(s[i]) THEN 0
    ELSE 1 + ClassRun(s, i + 1, cap - 1)

\* variant: the quantifier read as {6,15}
MatchLenAt_min6(s, i) ==
    LET p == IF s[i] = "+" THEN 1 ELSE 0
        r == ClassRun(s, i + p, MaxRun)
    IN  IF r >= MinRun - 1 THEN p + r ELSE 0

\* length of the match of \+?[\d\s\-\(\)]{7,15} anchored at i, 0 if none.
\* A '+' that is not followed by 7 class characters cannot be skipped: the
\* class does not contain '+'.
MatchLenAt(s, i) ==
    LET p == IF s[i] = "+" THEN 1 ELSE 0
        r == ClassRun(s, i + p, MaxRun)
    IN  IF r >= MinRun THEN p + r ELSE 0

\* matches[0] of message.match(phoneRegex): the leftmost match; <<>> when
\* match returns null (a match is never empty)
RECURSIVE FirstMatchFrom(_, _)
FirstMatchFrom(s, i) ==
    IF i > Len(s) THEN <<>>
    ELSE LET n == MatchLenAt(s, i)
         IN  IF n > 0 THEN SubSeq(s, i, i + n - 1) ELSE FirstMatchFrom(s, i + 1)

FirstMatch(s) == FirstMatchFrom(s, 1)

NotSeparator(c) == c \notin Separators
\* .replace(/[\s\-\(\)]/g, '')
StripSeparators(m) == SelectSeq(m, NotSeparator)

extractPhoneNumber(message) ==
    LET m == FirstMatch(message)
    IN  IF m # <<>> THEN StripSeparators(m) ELSE Null

\* ---------------------------------------------------------------- state
VARIABLES
    isConnected,   \* useState(false)
    showSettings,  \* useState(true)
    rendered,      \* isConnected and showSettings as the last render saw them
    messages,      \* useState<MqttMessage[]>([]), newest first
    config,        \* config.topic (the other fields only build the URL)
    clientRef,     \* clientRef.current: a handle id, 0 for null
    mounted,       \* the component is mounted
    devMode,       \* hostname is localhost or *lovableproject.com
    hstate,        \* per handle: what the transport is doing
    htopic,        \* per handle: config.topic captured by its handlers
    hpend,         \* per handle: a subscribe callback is outstanding
    now,           \* number of messages logged: the clock the records are stamped with
    toasts,        \* toast() calls made by the latest step
    calls,         \* window.open('tel:..') calls made by the latest step
    subs,          \* client.subscribe() calls made by the latest step
    input,         \* extractor harness: the string under construction
    nruns,         \* extractor harness: runs appended so far
    output         \* extractor harness: extractPhoneNumber(input) once applied

sessVars == <<isConnected, showSettings, rendered, messages, config, clientRef, mounted,
              devMode, hstate, htopic, hpend, now, toasts, calls, subs>>
xVars == <<input, nruns, output>>
vars == <<isConnected, showSettings, rendered, messages, config, clientRef, mounted,
          devMode, hstate, htopic, hpend, now, toasts, calls, subs,
          input, nruns, output>>

Handles == 1 .. MaxHandles
\* what can be typed into the topic field: a topic name and a filter with
\* the multi-level wildcard
Topics == {"dialer/phone", "dialer/#"}
DefaultTopic == "dialer/phone"
\* the topics messages are published to
PublishTopics == {"dialer/phone", "dialer/other"}
\* the broker delivers a message to a subscription whose filter matches the
\* topic it was published to
TopicMatches(filter, topic) ==
    topic \in PublishTopics /\ (filter = topic \/ filter = "dialer/#")

\* a handle created by mqtt.connect on which end() has not been called
Live == {"connecting", "connected", "offline"}
Created == {h \in Handles : hstate[h] # "none"}
LiveHandles == {h \in Handles : hstate[h] \in Live}
NotStarted == "unset"

Toast(title, arg) == [title |-> title, arg |-> arg]

\* a state setter called from a transport handler: React queues the update
\* while the component is mounted and drops it afterwards
SetState(current, value) == IF mounted THEN value ELSE current

\* {(showSettings || !isConnected) && ..}: the settings panel is rendered
PanelRendered == rendered.showSettings \/ ~rendered.isConnected
\* {!isConnected ? Connect : Disconnect}, inside the panel
ConnectOffered == mounted /\ PanelRendered /\ ~rendered.isConnected
DisconnectOffered == mounted /\ PanelRendered /\ rendered.isConnected
\* an update is queued that the page does not show yet
RenderPending ==
    mounted /\ rendered # [isConnected |-> isConnected, showSettings |-> showSettings]

Init ==
    /\ isConnected = FALSE
    /\ showSettings = TRUE
    /\ rendered = [isConnected |-> FALSE, showSettings |-> TRUE]
    /\ messages = <<>>
    /\ config = DefaultTopic
    /\ clientRef = 0
    /\ mounted = TRUE
    /\ devMode \in BOOLEAN
    /\ hstate = [h \in Handles |-> "none"]
    /\ htopic = [h \in Handles |-> DefaultTopic]
    /\ hpend = [h \in Handles |-> FALSE]
    /\ now = 0
    /\ toasts = <<>>
    /\ calls = <<>>
    /\ subs = <<>>
    /\ input = <<>>
    /\ nruns = 0
    /\ output = <<NotStarted>>

\* ------------------------------------------------------------ transport
\* client.end() as the handle sees it.  A connected handle keeps its socket
\* until the DISCONNECT packet is flushed, so events already in flight
\* (message, error, close) are still reported ("ending"); a handle that
\* was not connected has nothing in flight.
EndState(st) ==
    IF st = "connected" THEN "ending"
    ELSE IF st \in {"connecting", "offline"} THEN "ended"
    ELSE st

\* ------------------------------------------------------------- call trigger
\* variant: the hostname test left out
makePhoneCall_alwaysOpen(phoneNumber, openThrows) ==
    [toasts |-> IF openThrows THEN <<Toast("Call Failed", phoneNumber)>> ELSE <<>>,
     calls  |-> <<phoneNumber>>]

\* variant: the try/catch left out, a throwing window.open shows no toast
makePhoneCall_noCatch(phoneNumber, openThrows) ==
    IF devMode
    THEN [toasts |-> <<Toast("Phone Call Triggered", phoneNumber)>>,
          calls  |-> <<>>]
    ELSE [toasts |-> <<>>, calls |-> <<phoneNumber>>]

\* makePhoneCall: the toasts it shows and the window.open calls it makes.
\* openThrows: window.open throws (caught by the try/catch).
makePhoneCall(phoneNumber, openThrows) ==
    IF devMode
    THEN [toasts |-> <<Toast("Phone Call Triggered", phoneNumber)>>,
          calls  |-> <<>>]
    ELSE [toasts |-> IF openThrows THEN <<Toast("Call Failed", phoneNumber)>> ELSE <<>>,
          calls  |-> <<phoneNumber>>]

\* ------------------------------------------------------------ message log
\* variant: prev.slice(0, 50)
AppendMessage_keep50(prev, m) == <<m>> \o SubSeq(prev, 1, Min(KeepPrev + 1, Len(prev)))

\* [mqttMessage, ...prev.slice(0, 49)]
AppendMessage(prev, m) == <<m>> \o SubSeq(prev, 1, Min(KeepPrev, Len(prev)))

\* variant: phoneNumber ?? undefined
MqttMessage_nullish(topic, messageStr, phoneNumber) ==
    [topic |-> topic, message |-> messageStr, timestamp |-> now + 1,
     phoneNumber |-> IF phoneNumber # Null THEN phoneNumber ELSE Undefined]

\* the record built by the 'message' handler: phoneNumber || undefined
MqttMessage(topic, messageStr, phoneNumber) ==
    [topic |-> topic, message |-> messageStr, timestamp |-> now + 1,
     phoneNumber |-> IF Truthy(phoneNumber) THEN phoneNumber ELSE Undefined]

\* ---------------------------------------------------------------- actions
\* variant: a connect request that makes a client also empties the message
\* list
ConnectToMqtt_clearLog(connectThrows) ==
    /\ ConnectOffered
    /\ IF connectThrows
       THEN /\ toasts' = <<Toast("Connection Failed", "")>>
            /\ UNCHANGED <<clientRef, hstate, htopic, messages>>
       ELSE /\ Created # Handles
            /\ LET h == Cardinality(Created) + 1
               IN  /\ hstate' = [hstate EXCEPT ![h] = "connecting"]
                   /\ htopic' = [htopic EXCEPT ![h] = config]
                   /\ clientRef' = h
            /\ messages' = <<>>
            /\ toasts' = <<>>
    /\ calls' = <<>>
    /\ subs' = <<>>
    /\ UNCHANGED <<isConnected, showSettings, config, mounted, devMode,
                   hpend, now>>
    /\ UNCHANGED rendered
    /\ UNCHANGED xVars

\* A click on Connect: connectToMqtt.  connectThrows: mqtt.connect throws
\* (caught).
ConnectToMqtt(connectThrows) ==
    /\ ConnectOffered
    /\ IF connectThrows
       THEN /\ toasts' = <<Toast("Connection Failed", "")>>
            /\ UNCHANGED <<clientRef, hstate, htopic>>
       ELSE /\ Created # Handles
            /\ LET h == Cardinality(Created) + 1
               IN  /\ hstate' = [hstate EXCEPT ![h] = "connecting"]
                   /\ htopic' = [htopic EXCEPT ![h] = config]
                   /\ clientRef' = h
            /\ toasts' = <<>>
    /\ calls' = <<>>
    /\ subs' = <<>>
    /\ UNCHANGED <<isConnected, showSettings, messages, config, mounted, devMode,
                   hpend, now>>
    /\ UNCHANGED rendered
    /\ UNCHANGED xVars

\* variant: the handler reads the topic configured now, not the one captured
OnConnect_currentTopic(h) ==
    /\ hstate[h] \in {"connecting", "offline"}
    /\ ~hpend[h]
    /\ hstate' = [hstate EXCEPT ![h] = "connected"]
    /\ isConnected' = SetState(isConnected, TRUE)
    /\ showSettings' = SetState(showSettings, FALSE)
    /\ subs' = <<[handle |-> h, topic |-> config]>>
    /\ hpend' = [hpend EXCEPT ![h] = TRUE]
    /\ toasts' = <<>>
    /\ calls' = <<>>
    /\ UNCHANGED <<messages, config, clientRef, mounted, devMode, htopic, now>>
    /\ UNCHANGED rendered
    /\ UNCHANGED xVars

\* client.on('connect'): the first acknowledgment or one after a reconnect.
\* The library reports the outcome of a subscribe before the handle's next
\* close or connect, so none is outstanding here.  The handlers stay
\* registered on the client when the component is unmounted.
OnConnect(h) ==
    /\ hstate[h] \in {"connecting", "offline"}
    /\ ~hpend[h]
    /\ hstate' = [hstate EXCEPT ![h] = "connected"]
    /\ isConnected' = SetState(isConnected, TRUE)
    /\ showSettings' = SetState(showSettings, FALSE)
    /\ subs' = <<[handle |-> h, topic |-> htopic[h]]>>
    /\ hpend' = [hpend EXCEPT ![h] = TRUE]
    /\ toasts' = <<>>
    /\ calls' = <<>>
    /\ UNCHANGED <<messages, config, clientRef, mounted, devMode, htopic, now>>
    /\ UNCHANGED rendered
    /\ UNCHANGED xVars

\* the callback given to client.subscribe
SubscribeCallback(h, err) ==
    /\ hpend[h]
    /\ hpend' = [hpend EXCEPT ![h] = FALSE]
    /\ toasts' = IF err THEN <<Toast("Subscription Failed", htopic[h])>>
                 ELSE <<Toast("Connected & Subscribed", htopic[h])>>
    /\ calls' = <<>>
    /\ subs' = <<>>
    /\ UNCHANGED <<isConnected, showSettings, messages, config, clientRef, mounted,
                   devMode, hstate, htopic, now>>
    /\ UNCHANGED rendered
    /\ UNCHANGED xVars

\* client.on('message') for a message published to topic.
\* timestamp: new Date() is the position of the record among those logged.
\* message.toString() decodes the payload bytes; on the model's characters
\* the decoded text is the payload.
OnMessage(h, topic, payload, openThrows) ==
    /\ hstate[h] \in {"connected", "ending"}
    /\ TopicMatches(htopic[h], topic)
    /\ LET messageStr == payload
           phoneNumber == extractPhoneNumber(messageStr)
           mqttMessage == MqttMessage(topic, messageStr, phoneNumber)
           call == makePhoneCall(phoneNumber, openThrows)
       IN  /\ messages' = SetState(messages, AppendMessage(messages, mqttMessage))
           /\ toasts' = IF Truthy(phoneNumber)
                        THEN <<Toast("Phone Number Detected", phoneNumber)>> \o call.toasts
                        ELSE <<>>
           /\ calls' = IF Truthy(phoneNumber) THEN call.calls ELSE <<>>
    /\ now' = IF mounted THEN now + 1 ELSE now
    /\ subs' = <<>>
    /\ UNCHANGED <<isConnected, showSettings, config, clientRef, mounted, devMode,
                   hstate, htopic, hpend>>
    /\ UNCHANGED rendered
    /\ UNCHANGED xVars

\* variant: the error handler also marks the session disconnected
OnError_disconnects(h) ==
    /\ hstate[h] \in Live \cup {"ending"}
    /\ isConnected' = SetState(isConnected, FALSE)
    /\ toasts' = <<Toast("Connection Error", "")>>
    /\ calls' = <<>>
    /\ subs' = <<>>
    /\ UNCHANGED <<showSettings, messages, config, clientRef, mounted,
                   devMode, hstate, htopic, hpend, now>>
    /\ UNCHANGED rendered
    /\ UNCHANGED xVars

\* client.on('error')
OnError(h) ==
    /\ hstate[h] \in Live \cup {"ending"}
    /\ toasts' = <<Toast("Connection Error", "")>>
    /\ calls' = <<>>
    /\ subs' = <<>>
    /\ UNCHANGED <<isConnected, showSettings, messages, config, clientRef, mounted,
                   devMode, hstate, htopic, hpend, now>>
    /\ UNCHANGED rendered
    /\ UNCHANGED xVars

\* variant: setIsConnected(false) left out
OnClose_keepFlag(h) ==
    /\ hstate[h] \in Live \cup {"ending"}
    /\ ~hpend[h]
    /\ hstate' = [hstate EXCEPT ![h] = IF hstate[h] = "ending" THEN "ended" ELSE "offline"]
    /\ toasts' = <<>>
    /\ calls' = <<>>
    /\ subs' = <<>>
    /\ UNCHANGED <<isConnected, showSettings, messages, config, clientRef, mounted,
                   devMode, htopic, hpend, now>>
    /\ UNCHANGED rendered
    /\ UNCHANGED xVars

\* client.on('close'): the socket closed.  A live handle goes on to
\* reconnect every reconnectPeriod; an ended one is finished.
OnClose(h) ==
    /\ hstate[h] \in Live \cup {"ending"}
    /\ ~hpend[h]
    /\ hstate' = [hstate EXCEPT ![h] = IF hstate[h] = "ending" THEN "ended" ELSE "offline"]
    /\ isConnected' = SetState(isConnected, FALSE)
    /\ toasts' = <<>>
    /\ calls' = <<>>
    /\ subs' = <<>>
    /\ UNCHANGED <<showSettings, messages, config, clientRef, mounted, devMode,
                   htopic, hpend, now>>
    /\ UNCHANGED rendered
    /\ UNCHANGED xVars

\* variant: the test of clientRef.current left out
Disconnect_noGuard ==
    /\ DisconnectOffered
    /\ hstate' = IF clientRef # 0
                 THEN [hstate EXCEPT ![clientRef] = EndState(hstate[clientRef])]
                 ELSE hstate
    /\ clientRef' = 0
    /\ isConnected' = FALSE
    /\ rendered' = [rendered EXCEPT !.isConnected = FALSE]
    /\ toasts' = <<Toast("Disconnected", "")>>
    /\ calls' = <<>>
    /\ subs' = <<>>
    /\ UNCHANGED <<showSettings, messages, config, mounted, devMode, htopic, hpend, now>>
    /\ UNCHANGED xVars

\* A click on Disconnect: disconnect.  The button is on the page when the
\* last render saw isConnected and showSettings both true: the settings
\* button was clicked after a 'connect' event and before its render.
Disconnect ==
    /\ DisconnectOffered
    /\ IF clientRef # 0
       THEN /\ hstate' = [hstate EXCEPT ![clientRef] = EndState(hstate[clientRef])]
            /\ clientRef' = 0
            /\ isConnected' = FALSE
            /\ rendered' = [rendered EXCEPT !.isConnected = FALSE]
            /\ toasts' = <<Toast("Disconnected", "")>>
       ELSE /\ toasts' = <<>>
            /\ UNCHANGED <<hstate, clientRef, isConnected, rendered>>
    /\ calls' = <<>>
    /\ subs' = <<>>
    /\ UNCHANGED <<showSettings, messages, config, mounted, devMode, htopic, hpend, now>>
    /\ UNCHANGED xVars

\* the cleanup returned by useEffect(.., []): runs when the component is
\* unmounted.  It ends the handle clientRef holds and no other; nothing can
\* be requested of the component from here on.
Unmount ==
    /\ mounted
    /\ mounted' = FALSE
    /\ hstate' = IF clientRef # 0
                 THEN [hstate EXCEPT ![clientRef] = EndState(hstate[clientRef])]
                 ELSE hstate
    /\ toasts' = <<>>
    /\ calls' = <<>>
    /\ subs' = <<>>
    /\ UNCHANGED <<isConnected, showSettings, messages, config, clientRef, devMode,
                   htopic, hpend, now>>
    /\ UNCHANGED rendered
    /\ UNCHANGED xVars

\* the topic input's onChange; the field is inside the settings panel
SetTopic(t) ==
    /\ mounted
    /\ PanelRendered
    /\ t # config
    /\ config' = t
    /\ toasts' = <<>>
    /\ calls' = <<>>
    /\ subs' = <<>>
    /\ UNCHANGED <<isConnected, showSettings, messages, clientRef, mounted, devMode,
                   hstate, htopic, hpend, now>>
    /\ UNCHANGED rendered
    /\ UNCHANGED xVars

\* the settings button's onClick, inside the settings panel:
\* setShowSettings(!showSettings), showSettings being the value of the last
\* render
ToggleSettings ==
    /\ mounted
    /\ PanelRendered
    /\ showSettings' = ~rendered.showSettings
    /\ rendered' = [rendered EXCEPT !.showSettings = ~rendered.showSettings]
    /\ toasts' = <<>>
    /\ calls' = <<>>
    /\ subs' = <<>>
    /\ UNCHANGED <<isConnected, messages, config, clientRef, mounted, devMode,
                   hstate, htopic, hpend, now>>
    /\ UNCHANGED xVars

\* React renders the updates queued by the transport handlers
Render ==
    /\ RenderPending
    /\ rendered' = [isConnected |-> isConnected, showSettings |-> showSettings]
    /\ toasts' = <<>>
    /\ calls' = <<>>
    /\ subs' = <<>>
    /\ UNCHANGED <<isConnected, showSettings, messages, config, clientRef, mounted,
                   devMode, hstate, htopic, hpend, now>>
    /\ UNCHANGED xVars

\* ------------------------------------------------------------- payloads
\* "call +1<TAB>555-1234": a number with a leading '+' and separators, one
\* of them whitespace that is not a space
PayloadCall == <<"c", "a", "l", "l", " ", "+", "1", "\t", "5", "5", "5", "-",
                 "1", "2", "3", "4">>
\* "no digits": no run of 7 class characters
PayloadNoDigits == <<"n", "o", " ", "d", "i", "g", "i", "t", "s">>
\* "a       b": seven spaces, a match made of separators only
PayloadBlank == <<"a", " ", " ", " ", " ", " ", " ", " ", "b">>
Payloads == {PayloadCall, PayloadNoDigits, PayloadBlank}
\* the payload of the arrival that follows n logged ones in the log
\* specification: the three payloads in turn
LogPayload(n) == <<PayloadCall, PayloadNoDigits, PayloadBlank>>[(n % 3) + 1]

\* --------------------------------------------------------- specifications
\* The component: what its page offers, the transport events of every
\* handle, the renders, teardown.
Next ==
    \/ \E t \in BOOLEAN : ConnectToMqtt(t)
    \/ \E h \in Handles : OnConnect(h)
    \/ \E h \in Handles, e \in BOOLEAN : SubscribeCallback(h, e)
    \/ \E h \in Handles, tp \in PublishTopics, p \in Payloads, t \in BOOLEAN :
          now < MaxMsgs /\ OnMessage(h, tp, p, t)
    \/ \E h \in Handles : OnError(h)
    \/ \E h \in Handles : OnClose(h)
    \/ \E t \in Topics : SetTopic(t)
    \/ ToggleSettings
    \/ Disconnect
    \/ Render
    \/ Unmount

Spec == Init /\ [][Next]_vars

\* The message log under load: the same steps with more messages than the
\* log keeps and MaxLogHandles clients at a time: a connect request makes a
\* new client once the earlier ones are finished, so that sessions follow
\* one another on the same log.  A log of 50 records is enumerated
\* for one sequence of arrivals: the payloads in turn, published to the
\* default topic.
LogTopics == {DefaultTopic}
\* the clients that are not finished: live, or ended with events in flight
Unfinished == {h \in Handles : hstate[h] \in Live \cup {"ending"}}

NextLog ==
    \/ \E t \in BOOLEAN :
          (t \/ Cardinality(Unfinished) < MaxLogHandles) /\ ConnectToMqtt(t)
    \/ \E h \in Handles : OnConnect(h)
    \/ \E h \in Handles, e \in BOOLEAN : SubscribeCallback(h, e)
    \/ \E h \in Handles, tp \in LogTopics, t \in BOOLEAN :
          now < MaxLogMsgs /\ OnMessage(h, tp, LogPayload(now), t)
    \/ \E h \in Handles : OnError(h)
    \/ \E h \in Handles : OnClose(h)
    \/ \E t \in Topics : SetTopic(t)
    \/ ToggleSettings
    \/ Disconnect
    \/ Render
    \/ Unmount

SpecLog == Init /\ [][NextLog]_vars

\* The extractor alone: a string is built run by run, then extracted.
Alphabet == {"1", "2", " ", "\t", "-", "(", ")", "+", "a"}
\* run lengths: digits and spaces come in runs that add up to 6, 7, 15, 16..
RunLens(c) == IF c \in {"1", "2", " "} THEN {1, 6, 8} ELSE {1}

AppendRun(c, n) ==
    /\ output = <<NotStarted>>
    /\ nruns < MaxRuns
    /\ input' = input \o [k \in 1 .. n |-> c]
    /\ nruns' = nruns + 1
    /\ UNCHANGED output
    /\ UNCHANGED sessVars

ApplyExtract ==
    /\ output = <<NotStarted>>
    /\ output' = extractPhoneNumber(input)
    /\ UNCHANGED <<input, nruns>>
    /\ UNCHANGED sessVars

NextExtract ==
    \/ \E c \in Alphabet : \E n \in RunLens(c) : AppendRun(c, n)
    \/ ApplyExtract

SpecExtract == Init /\ [][NextExtract]_vars

\* =================================================================== claims
\* the cap the specification gives the log ("Keep last 50 messages")
LogCap == 50

\* ---- C1: after any sequence of message events the log holds at most 50
\* records, newest first and without a gap: position i holds the record that
\* arrived i-1 arrivals before the one in front; while the component is
\* mounted these are the min(arrivals, 50) latest arrivals, so an arrival at a
\* full log evicts exactly the oldest record and keeps the order of the others.
C1_LogHoldsNewest50 ==
    /\ Len(messages) <= LogCap
    /\ \A i \in 1 .. Len(messages) :
          messages[i].timestamp = messages[1].timestamp - i + 1
    /\ mounted => /\ Len(messages) = Min(now, LogCap)
                  /\ messages # <<>> => messages[1].timestamp = now

\* a full log after an eviction: 51 arrivals or more
C1_Witness ==
    /\ mounted
    /\ Len(messages) = LogCap
    /\ now > LogCap
    /\ messages[LogCap].timestamp > 1

\* ---- C2 (as claimed): at most one transport handle is live (created by
\* connectToMqtt, end() not yet called) at any time.
C2_AtMostOneLiveHandle == Cardinality(LiveHandles) <= 1

\* ---- C3 (as claimed): while the component is mounted the connected flag
\* is true exactly when the session holds a handle and the latest
\* connect/close event of that handle was 'connect'; the events of other
\* handles do not move it.
C3_FlagReflectsCurrentHandle ==
    mounted => (isConnected <=> (clientRef # 0 /\ hstate[clientRef] = "connected"))

\* ---- C4 (as claimed): an event of a handle that disconnect has released
\* changes neither the status nor the log and shows no toast and places no
\* call.
C4_EventsAfterDisconnectIgnored ==
    [][\A h \in Handles :
          (/\ mounted
           /\ hstate[h] = "ending"
           /\ \/ OnClose(h)
              \/ OnError(h)
              \/ \E tp \in PublishTopics, p \in Payloads, t \in BOOLEAN : OnMessage(h, tp, p, t))
          => /\ isConnected' = isConnected
             /\ messages' = messages
             /\ toasts' = <<>>
             /\ calls' = <<>>]_vars

\* ---- C5: while the component is mounted, whatever was delivered since the
\* handle reported 'connect', the status right after its 'close' event is
\* Disconnected.
C5_ClosedMeansDisconnected ==
    [][\A h \in Handles : (mounted /\ OnClose(h)) => ~isConnected']_vars

\* one handle connected, received a message, then closed
C5_Witness ==
    /\ mounted
    /\ Cardinality(Created) = 1
    /\ hstate[1] = "offline"
    /\ Len(messages) >= 1
    /\ ~isConnected

\* the state of the session that a request can change
SessionState == <<isConnected, clientRef, hstate, messages, showSettings>>

\* ---- C6: disconnect leaves no handle reference behind, and a disconnect
\* that finds none (the second of two in a row) ends no handle, shows no
\* "Disconnected" toast and leaves the session as it was.
C6_DisconnectIdempotent ==
    [][Disconnect =>
          /\ clientRef' = 0
          /\ (clientRef = 0 =>
                 /\ SessionState' = SessionState
                 /\ toasts' = <<>>)]_vars

\* after a disconnect that found no handle: the handle the session held was
\* ended by an earlier disconnect, the page shows the Disconnect button again
\* (another handle reported 'connect'), the reference is empty and no toast
\* was shown
C6_Witness ==
    /\ DisconnectOffered
    /\ clientRef = 0
    /\ \E h \in Handles : hstate[h] \in {"ending", "ended"}
    /\ isConnected
    /\ toasts = <<>>
    /\ calls = <<>>
    /\ subs = <<>>

\* a message step appended exactly one record, for payload p, in front
AppendedOne(p) ==
    /\ Len(messages') >= 1
    /\ Len(messages') >= Len(messages)
    /\ messages'[1].message = p
    /\ Tail(messages') = SubSeq(messages, 1, Len(messages') - 1)

\* ---- C7 (as claimed): every message event of a mounted component appends
\* one record, and the record carries a number exactly when the extractor
\* returned one (a value other than null), that value being the number
\* attached.
C7_NumberIffExtractorReturned ==
    [][\A h \in Handles, p \in Payloads :
          (mounted /\ now' = now + 1 /\ messages'[1].message = p
              /\ \E tp \in PublishTopics, t \in BOOLEAN : OnMessage(h, tp, p, t))
          => /\ AppendedOne(p)
             /\ messages'[1].phoneNumber =
                    IF extractPhoneNumber(p) # Null
                    THEN extractPhoneNumber(p) ELSE Undefined]_vars

\* ---- C7 (amended): every message event of a mounted component appends one
\* record, and the record carries a number exactly when the extractor
\* returned a non-empty string, that string being the number attached.
C7_NumberIffExtractorNonEmpty ==
    [][\A h \in Handles, p \in Payloads :
          (mounted /\ now' = now + 1 /\ messages'[1].message = p
              /\ \E tp \in PublishTopics, t \in BOOLEAN : OnMessage(h, tp, p, t))
          => /\ AppendedOne(p)
             /\ messages'[1].phoneNumber =
                    IF extractPhoneNumber(p) \notin {Null, <<>>}
                    THEN extractPhoneNumber(p) ELSE Undefined]_vars

\* a logged message whose match was separators only: the extractor returned
\* the empty string and the record carries no number
C7_Witness ==
    /\ mounted
    /\ Len(messages) >= 1
    /\ extractPhoneNumber(messages[1].message) = <<>>
    /\ messages[1].phoneNumber = Undefined

\* what the extractor returns for each payload
Extracted == [p \in Payloads |-> extractPhoneNumber(p)]

\* the step is a 'message' event of handle h with payload p, the component
\* mounted or not
MessageStep(h, p) ==
    /\ hstate[h] \in {"connected", "ending"}
    /\ subs' = <<>>
    /\ UNCHANGED <<isConnected, clientRef, mounted, hstate, hpend>>
    /\ mounted => (now' = now + 1 /\ messages'[1].message = p)
    /\ \E tp \in PublishTopics, t \in BOOLEAN : OnMessage(h, tp, p, t)

\* ---- C8 (as claimed): no step places a call in development mode; in
\* production mode a message event places exactly one call, to the
\* extractor's result, when the extractor returned a value, and none when it
\* returned null.
C8_CallIffExtractorReturned ==
    [][/\ devMode => calls' = <<>>
       /\ \A h \in Handles, p \in Payloads :
             \/ calls' = IF ~devMode /\ Extracted[p] # Null
                         THEN <<Extracted[p]>> ELSE <<>>
             \/ ~MessageStep(h, p)]_vars

\* ---- C8 (amended): no step places a call in development mode; in
\* production mode a message event places exactly one call, to the
\* extractor's result, when the extractor returned a non-empty string, and
\* none when it returned null or the empty string.
C8_CallIffExtractorNonEmpty ==
    [][/\ devMode => calls' = <<>>
       /\ \A h \in Handles, p \in Payloads :
             \/ calls' = IF ~devMode /\ Extracted[p] \notin {Null, <<>>}
                         THEN <<Extracted[p]>> ELSE <<>>
             \/ ~MessageStep(h, p)]_vars

\* production mode: the message just logged placed one call to its number
C8_Witness ==
    /\ ~devMode
    /\ Len(messages) >= 1
    /\ messages[1].phoneNumber # Undefined
    /\ calls = <<messages[1].phoneNumber>>

\* ---- C9 (as claimed): once the component is unmounted no handle created
\* by connectToMqtt is left without end() called on it.
C9_TeardownEndsEveryHandle == ~mounted => LiveHandles = {}

\* s holds 7 class characters in a row from position i on
RunAt(s, i) == i + MinRun - 1 <= Len(s) /\ \A k \in i .. i + MinRun - 1 : IsClass(s[k])
HasRun(s) == \E i \in 1 .. Len(s) : RunAt(s, i)

\* s[i .. i+n-1] is an optional '+' followed by 7 to 15 class characters
IsMatch(s, i, n) ==
    /\ n >= 1
    /\ i + n - 1 <= Len(s)
    /\ LET p == IF s[i] = "+" THEN 1 ELSE 0
       IN  /\ n - p \in MinRun .. MaxRun
           /\ \A k \in i + p .. i + n - 1 : IsClass(s[k])
Starts(s) == {i \in 1 .. Len(s) : \E n \in 1 .. MaxRun + 1 : IsMatch(s, i, n)}
\* the leftmost match, taken as long as the pattern allows
LeftmostMatch(s) ==
    LET i == CHOOSE x \in Starts(s) : \A y \in Starts(s) : x <= y
        n == CHOOSE x \in 1 .. MaxRun + 1 :
                 /\ IsMatch(s, i, x)
                 /\ \A y \in 1 .. MaxRun + 1 : IsMatch(s, i, y) => y <= x
    IN  SubSeq(s, i, i + n - 1)
\* r is m with its whitespace, hyphens and parentheses left out
RECURSIVE IsCleaned(_, _)
IsCleaned(r, m) ==
    IF m = <<>> THEN r = <<>>
    ELSE IF Head(m) \in Whitespace \cup {"-", "(", ")"} THEN IsCleaned(r, Tail(m))
    ELSE r # <<>> /\ Head(r) = Head(m) /\ IsCleaned(Tail(r), Tail(m))

\* ---- C10: extractPhoneNumber(s) returns a value exactly when s holds a run
\* of 7 class characters; the value is the leftmost match without its
\* whitespace, hyphens and parentheses: only digits, after an optional
\* leading '+'.
C10_ExtractorContract ==
    output # <<NotStarted>> =>
        /\ output # Null <=> HasRun(input)
        /\ output # Null =>
              /\ IsCleaned(output, LeftmostMatch(input))
              /\ \A k \in 1 .. Len(output) :
                    output[k] \in Digits \/ (k = 1 /\ output[k] = "+")

\* a '+', more than 15 class characters with separators among them: the
\* match is cut at 15 and cleaned
C10_Witness ==
    /\ output # <<NotStarted>>
    /\ output # Null
    /\ Len(input) > MaxRun + 1
    /\ Head(input) = "+"
    /\ Head(output) = "+"
    /\ Len(output) < MaxRun
    /\ Len(output) > 1

\* ---- C11: an 'error' event shows the "Connection Error" toast and leaves the
\* status, the handle reference, the handles and the log as they were; the
\* status falls from Connected to Disconnected only in a 'close' step or a
\* disconnect.
C11_ErrorOnlyNotifies ==
    [][/\ \A h \in Handles :
             OnError(h)
             => /\ toasts' = <<Toast("Connection Error", "")>>
                /\ isConnected' = isConnected
                /\ clientRef' = clientRef
                /\ hstate' = hstate
                /\ messages' = messages
       /\ (isConnected /\ ~isConnected')
             => ((\E h \in Handles : OnClose(h)) \/ Disconnect)]_vars

\* an error was just reported on the connected handle the session holds, and
\* the session is still Connected
C11_Witness ==
    /\ mounted
    /\ toasts = <<Toast("Connection Error", "")>>
    /\ isConnected
    /\ clientRef # 0
    /\ hstate[clientRef] = "connected"

\* ---- C12 (while the component is mounted): when window.open throws for a
\* detected number, the "Call Failed"
\* toast is shown after the "Phone Number Detected" one, the message is in
\* front of the log with its number attached, and the status, the handle
\* reference and the handles are as they were.
C12_CallFailureContained ==
    [][\A h \in Handles, p \in Payloads :
          (/\ mounted
           /\ now' = now + 1
           /\ messages'[1].message = p
           /\ ~devMode
           /\ Truthy(extractPhoneNumber(p))
           /\ \E tp \in PublishTopics : OnMessage(h, tp, p, TRUE))
          => /\ toasts' = <<Toast("Phone Number Detected", extractPhoneNumber(p)),
                            Toast("Call Failed", extractPhoneNumber(p))>>
             /\ messages'[1].phoneNumber = extractPhoneNumber(p)
             /\ isConnected' = isConnected
             /\ clientRef' = clientRef
             /\ hstate' = hstate]_vars

\* production mode: the call for the message just logged was attempted and
\* failed, on a session that is still Connected
C12_Witness ==
    /\ mounted
    /\ ~devMode
    /\ Len(messages) >= 1
    /\ messages[1].phoneNumber # Undefined
    /\ calls = <<messages[1].phoneNumber>>
    /\ toasts = <<Toast("Phone Number Detected", messages[1].phoneNumber),
                  Toast("Call Failed", messages[1].phoneNumber)>>
    /\ isConnected
    /\ clientRef # 0

\* ---- C13 (as claimed): a subscribe callback that reports an error shows
\* the "Subscription Failed" toast and leaves the status, the handle
\* reference and the handles as they were; afterwards the status falls only
\* in a 'close' step or a disconnect, and while the status is Connected the
\* reference keeps the handle it holds until a 'close' step or a disconnect.
C13_SubscribeFailureKeepsHandle ==
    [][/\ \A h \in Handles :
             (hpend[h] /\ SubscribeCallback(h, TRUE))
             => /\ toasts' = <<Toast("Subscription Failed", htopic[h])>>
                /\ isConnected' = isConnected
                /\ clientRef' = clientRef
                /\ hstate' = hstate
       /\ (isConnected /\ ~isConnected')
             => ((\E h \in Handles : OnClose(h)) \/ Disconnect)
       /\ (isConnected /\ clientRef # 0 /\ clientRef' # clientRef)
             => ((\E h \in Handles : OnClose(h)) \/ Disconnect)]_vars

\* ---- C14: a handle's topic is the one configured when connectToMqtt made
\* it and never changes afterwards, whatever is typed into the topic field;
\* every 'connect' acknowledgment of the handle, the first or one after a
\* reconnect, sets the status to Connected (while the component is mounted)
\* and issues one subscribe, for that topic.
C14_ConnectSubscribesCapturedTopic ==
    [][\A h \in Handles :
          /\ (hstate[h] = "none" /\ hstate'[h] # "none") => htopic'[h] = config
          /\ hstate[h] # "none" => htopic'[h] = htopic[h]
          /\ OnConnect(h)
             => /\ mounted => isConnected'
                /\ subs' = <<[handle |-> h, topic |-> htopic[h]]>>]_vars

\* the handle has just acknowledged and subscribed to the topic it was made
\* with, after the topic field was changed to another one
C14_Witness ==
    /\ mounted
    /\ hstate[1] = "connected"
    /\ isConnected
    /\ config # htopic[1]
    /\ subs = <<[handle |-> 1, topic |-> htopic[1]]>>

\* ---- C15: the log changes only in a 'message' step (not in a connect or
\* disconnect request, teardown, or a 'connect', 'error' or 'close' step or a
\* subscribe callback), and a 'message' step leaves every record that stays in
\* the log as it was, one place further back.
C15_LogOnlyGrowsInFront ==
    [][messages' # messages
          => /\ messages' # <<>>
             /\ \E h \in Handles, tp \in PublishTopics, t \in BOOLEAN :
                   OnMessage(h, tp, messages'[1].message, t)
             /\ \A i \in 2 .. Len(messages') : messages'[i] = messages[i - 1]]_vars

\* a connect request has just made a new handle (it has reported nothing
\* yet) on a full log that has seen evictions, after an earlier session
\* received the records: the log is as it was
C15_Witness ==
    /\ mounted
    /\ clientRef # 0
    /\ hstate[clientRef] = "connecting"
    /\ Len(messages) = LogCap
    /\ now > LogCap
    /\ messages[1].timestamp = now

\* ---- C16: while the component is mounted and the status is Connected,
\* clientRef holds a handle and that handle is the one that reported
\* 'connect' (it is in the connected state), so that disconnect ends it.
C16_ConnectedImpliesHeldHandle ==
    (mounted /\ isConnected)
        => /\ clientRef # 0
           /\ hstate[clientRef] = "connected"

====
